---- MODULE Spec2Model ----
(***************************************************************************)
(* Model of qqhann/KnowledgeTracing: the option resolver                   *)
(* (src/src/config.py), the batch entry point main and the per-experiment  *)
(* function run (src/main.py), and the checkpoint file naming              *)
(* (src/main.py save_model, src/src/path.py).                              *)
(***************************************************************************)
EXTENDS Integers, Sequences, FiniteSets, TLC

VARIABLES
    pc,          \* position of the modelled call
    heap,        \* resolver: address -> dict object (the arguments and `updated`)
    ret,         \* resolver: outcome of get_option_fallback
    config_arg,  \* main: the --config path
    cp,          \* main: the sections of the config file, in file order
    idx,         \* main: position of the loop over section_list
    common_opt,  \* main: dict(cp['common'])
    config_dict, \* main: the resolved options of the current section
    report,      \* main: the local `report` (Unbound before its first assignment)
    report_list, \* main: the reports appended so far
    written,     \* main: the report files written, [name, content]
    config,      \* run: the options of the Config object passed to run
    trace,       \* run: the calls run has made outside itself, in order
    run_report,  \* run: the local dict `report`
    run_ret,     \* run: what the call returned
    saved,       \* naming: the (auc, epoch) pairs save_model was called with
    files,       \* naming: the files under the checkpoints directory
    listing,     \* naming: the list get_best_model_paths returned
    exc          \* main, run: the exception that ended the call, "" if none

(***************************************************************************)
(* Bounds of the model.                                                    *)
(***************************************************************************)
MaxKeys == 2        \* a fallback schema has at most this many keys
MaxOptKeys == 2     \* an options mapping has at most this many keys
MaxSections == 2    \* a config file has at most this many sections
MaxEpoch == 10      \* checkpoints are saved at epochs 1..MaxEpoch
MaxFiles == 2       \* at most this many checkpoints are saved
FracDigits == 4     \* decimal digits kept after the point of a float

(***************************************************************************)
(* Python values.  A value is a record with its type name t and payload    *)
(* fields: b (bool), i (int), s (str, as a sequence of one-character       *)
(* strings, the characters being those up to U+00FF; for a class object    *)
(* such as `str`, the name of the class) and m.  An int of up to nine       *)
(* digits is its i; a longer one has its sign in b and the digits of its   *)
(* magnitude in s, and i = 0 (IntOf).  A float is a double,                *)
(* written as repr writes it: m is "" for a finite one, else "inf" or      *)
(* "nan"; b is its sign bit, s the significant digits of its shortest      *)
(* decimal, without leading or trailing zeros (<<>> for zero), and i the   *)
(* power of ten that multiplies the integer written by s.  A nan is not == *)
(* to itself, so which object it is matters to the comparisons that look   *)
(* at identity first: the i of a nan tells the object, 0 being the nan     *)
(* that float(text) has just made and nothing refers to yet.               *)
(***************************************************************************)
BoolV(x) == [t |-> "bool", b |-> x, i |-> 0, s |-> <<>>, m |-> ""]
IntV(n) == [t |-> "int", b |-> FALSE, i |-> n, s |-> <<>>, m |-> ""]
StrV(cs) == [t |-> "str", b |-> FALSE, i |-> 0, s |-> cs, m |-> ""]
NoneV == [t |-> "NoneType", b |-> FALSE, i |-> 0, s |-> <<>>, m |-> ""]

\* the class object named cs
ClassV(cs) == [t |-> "type", b |-> FALSE, i |-> 0, s |-> cs, m |-> ""]

\* the names of the classes of the values
TypeNames ==
    [bool |-> <<"b", "o", "o", "l">>, int |-> <<"i", "n", "t">>,
     float |-> <<"f", "l", "o", "a", "t">>, str |-> <<"s", "t", "r">>,
     NoneType |-> <<"N", "o", "n", "e", "T", "y", "p", "e">>,
     type |-> <<"t", "y", "p", "e">>]

\* the class of the values whose t is name; type(x) is TypeV(x.t)
TypeV(name) == ClassV(TypeNames[name])

RECURSIVE Pow10(_)
Pow10(n) == IF n = 0 THEN 1 ELSE 10 * Pow10(n - 1)

Digits == <<"0", "1", "2", "3", "4", "5", "6", "7", "8", "9">>
DigitSet == {Digits[d] : d \in 1..10}
DigitVal == [c \in DigitSet |-> (CHOOSE d \in 1..10 : Digits[d] = c) - 1]

RECURSIVE DigitsVal(_)
DigitsVal(cs) ==
    IF cs = <<>> THEN 0
    ELSE 10 * DigitsVal(SubSeq(cs, 1, Len(cs) - 1)) + DigitVal[cs[Len(cs)]]

RECURSIVE NatStr(_)
NatStr(n) == IF n < 10 THEN <<Digits[n + 1]>>
             ELSE NatStr(n \div 10) \o <<Digits[(n % 10) + 1]>>

IntStr(n) == IF n < 0 THEN <<"-">> \o NatStr(0 - n) ELSE NatStr(n)

\* n written with exactly w digits, zero-padded on the left
RECURSIVE FixedDigits(_, _)
FixedDigits(n, w) == IF w = 0 THEN <<>>
                     ELSE FixedDigits(n \div 10, w - 1) \o <<Digits[(n % 10) + 1]>>

RECURSIVE StripZeros(_)
StripZeros(cs) == IF Len(cs) > 1 /\ cs[Len(cs)] = "0"
                  THEN StripZeros(SubSeq(cs, 1, Len(cs) - 1)) ELSE cs

Zeros(n) == [k \in 1..n |-> "0"]

\* the number of zeros cs ends with
TrailingZeros(cs) ==
    IF \A k \in 1..Len(cs) : cs[k] = "0" THEN Len(cs)
    ELSE Len(cs) - (CHOOSE k \in 1..Len(cs) :
                        cs[k] # "0" /\ \A j \in (k + 1)..Len(cs) : cs[j] = "0")

DropLeadingZeros(cs) ==
    IF \A k \in 1..Len(cs) : cs[k] = "0" THEN <<>>
    ELSE SubSeq(cs, CHOOSE k \in 1..Len(cs) : cs[k] # "0" /\ \A j \in 1..(k - 1) : cs[j] = "0",
                Len(cs))
DropTrailingZeros(cs) == SubSeq(cs, 1, Len(cs) - TrailingZeros(cs))

\* the int of sign neg and magnitude digits (no leading zeros, <<>> for 0)
IntOf(neg, digits) ==
    IF Len(digits) <= 9 THEN IntV((IF neg THEN 0 - 1 ELSE 1) * DigitsVal(digits))
    ELSE [t |-> "int", b |-> neg, i |-> 0, s |-> digits, m |-> ""]

\* the sign and the magnitude of an int or a bool x, True being 1
IntParts(x) ==
    [neg |-> x.t = "int" /\ (x.b \/ x.i < 0),
     digits |-> IF x.t = "bool" THEN (IF x.b THEN <<"1">> ELSE <<>>)
                ELSE IF x.s # <<>> THEN x.s
                ELSE DropLeadingZeros(NatStr(IF x.i < 0 THEN 0 - x.i ELSE x.i))]

(***************************************************************************)
(* Natural numbers of any size, as their decimal digits without leading    *)
(* zeros (<<>> for 0).                                                     *)
(***************************************************************************)
BigLess(a, b) ==
    \/ Len(a) < Len(b)
    \/ /\ Len(a) = Len(b)
       /\ \E k \in 1..Len(a) : /\ DigitVal[a[k]] < DigitVal[b[k]]
                               /\ \A j \in 1..(k - 1) : a[j] = b[j]

\* 2 * a: a digit doubles to an even digit, plus one when the next is 5 or more
BigDouble(a) ==
    LET x == <<"0">> \o a
    IN  DropLeadingZeros(
          [k \in 1..Len(x) |->
             Digits[((2 * DigitVal[x[k]]) % 10)
                    + (IF k < Len(x) /\ DigitVal[x[k + 1]] >= 5 THEN 1 ELSE 0) + 1]])

\* a \div 2
BigHalf(a) ==
    DropLeadingZeros(
      [k \in 1..Len(a) |->
         Digits[((DigitVal[a[k]] + (IF k > 1 /\ DigitVal[a[k - 1]] % 2 = 1 THEN 10 ELSE 0))
                 \div 2) + 1]])

BigIsOdd(a) == a # <<>> /\ DigitVal[a[Len(a)]] % 2 = 1

\* a + 1
BigInc(a) ==
    LET nines == IF \A k \in 1..Len(a) : a[k] = "9" THEN Len(a)
                 ELSE Len(a) - (CHOOSE k \in 1..Len(a) :
                                    a[k] # "9" /\ \A j \in (k + 1)..Len(a) : a[j] = "9")
        keep == Len(a) - nines
    IN  IF keep = 0 THEN <<"1">> \o Zeros(nines)
        ELSE SubSeq(a, 1, keep - 1) \o <<Digits[DigitVal[a[keep]] + 2]>> \o Zeros(nines)

\* a - b for a >= b: the digit at k borrows when what follows it in a is
\* less than what follows it in b, which the first digit that differs decides
BigSub(a, b) ==
    LET n == Len(a)
        c == Zeros(n - Len(b)) \o b
        borrow(k) ==
            IF \A j \in (k + 1)..n : a[j] = c[j] THEN FALSE
            ELSE LET d == CHOOSE j \in (k + 1)..n :
                              a[j] # c[j] /\ \A h \in (k + 1)..(j - 1) : a[h] = c[h]
                 IN  DigitVal[a[d]] < DigitVal[c[d]]
    IN  DropLeadingZeros(
          [k \in 1..n |->
             Digits[((DigitVal[a[k]] - DigitVal[c[k]] - (IF borrow(k) THEN 1 ELSE 0) + 10)
                     % 10) + 1]])

\* a * 2^n and a * 5^n, by halves of n; 5 * a is half of 10 * a
RECURSIVE BigDoubleTimes(_, _)
BigDoubleTimes(a, n) ==
    IF n <= 0 THEN a
    ELSE IF n = 1 THEN BigDouble(a)
    ELSE LET half == BigDoubleTimes(a, n \div 2)
         IN  IF half = <<>> THEN <<>> ELSE BigDoubleTimes(half, n - n \div 2)

RECURSIVE BigTimes5Times(_, _)
BigTimes5Times(a, n) ==
    IF n <= 0 THEN a
    ELSE IF n = 1 THEN BigHalf(a \o <<"0">>)
    ELSE LET half == BigTimes5Times(a, n \div 2)
         IN  IF half = <<>> THEN <<>> ELSE BigTimes5Times(half, n - n \div 2)

(***************************************************************************)
(* The doubles.  A finite double is m * 2^k for a natural m below 2^53,    *)
(* with m at least 2^52 unless k is the least exponent; the texts and the  *)
(* ints int() and float() read are rounded to the nearest double, to the   *)
(* one of even m when two are as near.                                     *)
(***************************************************************************)
TwoTo53 == <<"9", "0", "0", "7", "1", "9", "9", "2", "5", "4", "7", "4", "0", "9", "9", "2">>
MantissaBits == 53
MinBinExp == 0 - 1074

\* every decimal whose first digit stands for 10^311 or more is beyond the
\* doubles, every one whose first digit stands for 10^-330 or less rounds to 0
MaxExp10 == 310
MinExp10 == 0 - 330

\* a text of at most 15 significant digits whose first digit stands for a
\* power of ten in -307..307 is the shortest decimal of a double of its own
ExactDigits == 15
NormalExp10 == 307

\* a binary exponent not above that of the double of a decimal whose first
\* digit stands for 10^top: log2(10) is 3321928 millionths, rounded down,
\* and the decimal is at least 2^((top * 3321928) \div 10^6 - 1)
BinExpBelow(top) ==
    LET est == (top * 3321928) \div Pow10(6) - MantissaBits
    IN  IF est < MinBinExp THEN MinBinExp ELSE est

\* the number is num / den * 2^k; k is raised until num < 2^53 * den, and
\* that is the division to do: no bit of the quotient yet, den at 2^53 times
\* itself
RECURSIVE ScaleUp(_, _, _)
ScaleUp(num, den, k) ==
    IF BigLess(num, BigDoubleTimes(den, MantissaBits))
    THEN [q |-> <<>>, r |-> num, den |-> BigDoubleTimes(den, MantissaBits), k |-> k]
    ELSE ScaleUp(num, BigDouble(den), k + 1)

\* digits * 10^exp = digits * 5^exp * 2^(exp - k) * 2^k, as num / den * 2^k
Scaled(digits, exp, k) ==
    ScaleUp(BigDoubleTimes(BigTimes5Times(digits, exp), exp - k),
            BigDoubleTimes(BigTimes5Times(<<"1">>, 0 - exp), k - exp), k)

\* n more bits of q = r \div den, by halves of n, as long as den can be
\* halved; for one bit den is halved first
RECURSIVE DivBits(_, _)
DivBits(st, n) ==
    IF n <= 1
    THEN LET t == BigHalf(st.den)
         IN  IF BigLess(st.r, t)
             THEN [q |-> BigDouble(st.q), r |-> st.r, den |-> t, k |-> st.k]
             ELSE [q |-> BigInc(BigDouble(st.q)), r |-> BigSub(st.r, t), den |-> t, k |-> st.k]
    ELSE LET first == DivBits(st, n \div 2)
         IN  IF first.den = <<>> THEN first ELSE DivBits(first, n - n \div 2)

\* the quotient goes up when the remainder is more than half of den, and
\* when it is the half and the quotient is odd
Rounded(dv) ==
    LET twice == BigDouble(dv.r)
    IN  [m |-> IF BigLess(dv.den, twice) \/ (twice = dv.den /\ BigIsOdd(dv.q))
               THEN BigInc(dv.q) ELSE dv.q,
         k |-> dv.k]

\* the double m * 2^k, for m up to 2^53; the greatest is (2^53 - 1) * 2^971
DoubleOf(r) ==
    LET k == IF r.m = TwoTo53 THEN r.k + 1 ELSE r.k
    IN  IF r.m = <<>> THEN [kind |-> "zero", m |-> <<>>, k |-> 0]
        ELSE IF k > 971 THEN [kind |-> "inf", m |-> <<>>, k |-> 0]
        ELSE [kind |-> "finite", m |-> IF r.m = TwoTo53 THEN BigHalf(TwoTo53) ELSE r.m, k |-> k]

\* the double nearest to digits * 10^exp, digits a natural other than 0
\* without leading zeros
ToDouble(digits, exp) ==
    DoubleOf(Rounded(DivBits(Scaled(digits, exp, BinExpBelow(Len(digits) + exp - 1)),
                             MantissaBits)))

\* all * 10^exp with the trailing zeros of all taken into the exponent
Trimmed(all, exp) == [digits |-> DropTrailingZeros(all), exp |-> exp + TrailingZeros(all)]

\* the double d = m * 2^k written out: digits * 10^exp, digits without
\* trailing zeros
ExactDecimal(d) ==
    Trimmed(BigTimes5Times(BigDoubleTimes(d.m, d.k), 0 - d.k), IF d.k >= 0 THEN 0 ELSE d.k)

\* the decimals of n digits next to x = [digits, exp], x having more digits:
\* the one below and the one above
Neighbours(x, n) ==
    <<[digits |-> SubSeq(x.digits, 1, n), exp |-> x.exp + Len(x.digits) - n],
      [digits |-> BigInc(SubSeq(x.digits, 1, n)), exp |-> x.exp + Len(x.digits) - n]>>

\* the one above is the nearer when what follows the first n digits is more
\* than a half, and when it is the half and they are odd
NextIsNearer(digits, n) ==
    LET rest == SubSeq(digits, n + 1, Len(digits))
    IN  IF DropTrailingZeros(rest) = <<"5">> THEN BigIsOdd(SubSeq(digits, 1, n))
        ELSE DigitVal[rest[1]] >= 5

\* those of the decimals cs that ToDouble takes to d
ReadAs(cs, d) == {c \in {cs[k] : k \in 1..Len(cs)} : ToDouble(c.digits, c.exp) = d}

\* the nearer of the two neighbours when both are good, else the good one
Nearest(pair, good, up) ==
    IF pair[2] \in good /\ (up \/ pair[1] \notin good) THEN [ok |-> TRUE, dec |-> pair[2]]
    ELSE [ok |-> pair[1] \in good, dec |-> pair[1]]

\* the decimal of n digits nearest to x among those that ToDouble takes to
\* d, ok when there is one
NearestOf(x, n, d) ==
    IF n >= Len(x.digits) THEN [ok |-> TRUE, dec |-> x]
    ELSE Nearest(Neighbours(x, n), ReadAs(Neighbours(x, n), d), NextIsNearer(x.digits, n))

\* repr takes at most 17 significant digits: the decimal of 17 digits
\* nearest to a double is taken to it
ReprDigits == 17

\* lo..hi narrowed by half: to the lower half when its last n has a decimal
Narrowed(st, near) ==
    IF near.ok THEN [lo |-> st.lo, hi |-> (st.lo + st.hi) \div 2, best |-> near.dec]
    ELSE [lo |-> (st.lo + st.hi) \div 2 + 1, hi |-> st.hi, best |-> st.best]

\* the decimal of the least n in lo..hi that has one, given that hi has best
RECURSIVE Shortest(_, _, _)
Shortest(x, d, st) ==
    IF st.lo >= st.hi THEN st.best
    ELSE Shortest(x, d, Narrowed(st, NearestOf(x, (st.lo + st.hi) \div 2, d)))

\* the shortest decimal that ToDouble takes to d, d being x written out
ShortestOf(x, d) ==
    Shortest(x, d, [lo |-> 1, hi |-> ReprDigits,
                    best |-> IF ReprDigits >= Len(x.digits) THEN x
                             ELSE Neighbours(x, ReprDigits)[
                                      IF NextIsNearer(x.digits, ReprDigits) THEN 2 ELSE 1]])

FloatZero(neg) == [t |-> "float", b |-> neg, i |-> 0, s |-> <<>>, m |-> ""]
FloatInf(neg) == [t |-> "float", b |-> neg, i |-> 0, s |-> <<>>, m |-> "inf"]
FloatNan == [t |-> "float", b |-> FALSE, i |-> 0, s |-> <<>>, m |-> "nan"]

\* the float of sign neg whose shortest decimal is x.digits * 10^x.exp
FloatOf(neg, x) ==
    [t |-> "float", b |-> neg, s |-> DropTrailingZeros(x.digits), m |-> "",
     i |-> x.exp + TrailingZeros(x.digits)]

\* the float of sign neg that is the double d
FloatOfDouble(neg, d) ==
    IF d.kind = "inf" THEN FloatInf(neg)
    ELSE IF d.kind = "zero" THEN FloatZero(neg)
    ELSE FloatOf(neg, ShortestOf(ExactDecimal(d), d))

\* the float of sign neg nearest to digits * 10^exp
MakeFloat(neg, digits, exp) ==
    LET sig == DropTrailingZeros(DropLeadingZeros(digits))
        e == exp + TrailingZeros(DropLeadingZeros(digits))
        top == Len(sig) + e - 1
    IN  IF sig = <<>> THEN FloatZero(neg)
        ELSE IF top > MaxExp10 THEN FloatInf(neg)
        ELSE IF top < MinExp10 THEN FloatZero(neg)
        ELSE IF Len(sig) <= ExactDigits /\ top <= NormalExp10 /\ top >= 0 - NormalExp10
        THEN FloatOf(neg, [digits |-> sig, exp |-> e])
        ELSE FloatOfDouble(neg, ToDouble(sig, e))

\* the float n / 10^FracDigits
FloatV(n) == MakeFloat(n < 0, NatStr(IF n < 0 THEN 0 - n ELSE n), 0 - FracDigits)

\* the digits before the point of v = [digits, exp], and whether v is whole
IntPartOf(v) ==
    [digits |-> IF v.exp >= 0 THEN v.digits \o Zeros(v.exp)
                ELSE SubSeq(v.digits, 1, Len(v.digits) + v.exp),
     whole |-> v.exp >= 0]

\* the integer part of the magnitude of a finite float, and whether the
\* float is that integer: below 10^15 the shortest decimal has the integer
\* part of the double, above that the double is written out
FloatIntPart(x) ==
    IntPartOf(IF x.s = <<>> \/ Len(x.s) + x.i - 1 < ExactDigits
              THEN [digits |-> x.s, exp |-> x.i]
              ELSE ExactDecimal(ToDouble(x.s, x.i)))

\* int(x) of a finite float: the digits before the point
FloatTrunc(x) == IntOf(x.b, FloatIntPart(x).digits)

\* repr of a float: positional between 1e-4 and 1e16, else with an exponent
\* of at least two digits
FloatStr(x) ==
    LET sign == IF x.b THEN <<"-">> ELSE <<>>
        n == Len(x.s)
        decpt == n + x.i
        ex == decpt - 1
    IN  IF x.m = "nan" THEN <<"n", "a", "n">>
        ELSE IF x.m = "inf" THEN sign \o <<"i", "n", "f">>
        ELSE IF n = 0 THEN sign \o <<"0", ".", "0">>
        ELSE IF decpt > 16 \/ decpt < 0 - 3
        THEN sign \o <<x.s[1]>>
             \o (IF n > 1 THEN <<".">> \o SubSeq(x.s, 2, n) ELSE <<>>)
             \o <<"e">> \o (IF ex < 0 THEN <<"-">> ELSE <<"+">>)
             \o (LET a == IF ex < 0 THEN 0 - ex ELSE ex
                 IN  IF a < 10 THEN <<"0">> \o NatStr(a) ELSE NatStr(a))
        ELSE IF decpt <= 0 THEN sign \o <<"0", ".">> \o Zeros(0 - decpt) \o x.s
        ELSE IF decpt >= n THEN sign \o x.s \o Zeros(decpt - n) \o <<".", "0">>
        ELSE sign \o SubSeq(x.s, 1, decpt) \o <<".">> \o SubSeq(x.s, decpt + 1, n)

(***************************************************************************)
(* The text of a number as int(s) and float(s) read it: blanks around it   *)
(* are dropped, a sign may lead, and single underscores may stand between  *)
(* digits.                                                                 *)
(***************************************************************************)
\* tab, line feed, vertical tab, form feed, carriage return, space, next
\* line (U+0085), no-break space (U+00A0)
WhiteSpace == {"\t", "\n", "", "\f", "\r", " ", "", " "}

Strip(cs) ==
    IF \A k \in 1..Len(cs) : cs[k] \in WhiteSpace THEN <<>>
    ELSE SubSeq(cs,
                CHOOSE k \in 1..Len(cs) :
                    cs[k] \notin WhiteSpace /\ \A j \in 1..(k - 1) : cs[j] \in WhiteSpace,
                CHOOSE k \in 1..Len(cs) :
                    cs[k] \notin WhiteSpace /\ \A j \in (k + 1)..Len(cs) : cs[j] \in WhiteSpace)

IsNegative(cs) == cs # <<>> /\ Head(cs) = "-"
Unsigned(cs) == IF cs # <<>> /\ Head(cs) \in {"+", "-"} THEN Tail(cs) ELSE cs

\* digits, with single underscores between digits only
DigitRun(cs) ==
    /\ cs # <<>>
    /\ \A k \in 1..Len(cs) : cs[k] \in DigitSet \cup {"_"}
    /\ cs[1] # "_" /\ cs[Len(cs)] # "_"
    /\ \A k \in 1..(Len(cs) - 1) : ~(cs[k] = "_" /\ cs[k + 1] = "_")

OnlyDigits(cs) == SelectSeq(cs, LAMBDA c : c \in DigitSet)

\* the index of the first character of cs that is in S, Len(cs) + 1 if none
FirstOf(cs, S) ==
    IF \E k \in 1..Len(cs) : cs[k] \in S
    THEN CHOOSE k \in 1..Len(cs) : cs[k] \in S /\ \A j \in 1..(k - 1) : cs[j] \notin S
    ELSE Len(cs) + 1

\* the letters of inf, infinity and nan in lower case
Lower(cs) ==
    [k \in 1..Len(cs) |->
       CASE cs[k] = "I" -> "i" [] cs[k] = "N" -> "n" [] cs[k] = "F" -> "f"
         [] cs[k] = "T" -> "t" [] cs[k] = "Y" -> "y" [] cs[k] = "A" -> "a"
         [] OTHER -> cs[k]]

\* float(s) for the text cs
ParseFloat(cs) ==
    LET t == Strip(cs)
        neg == IsNegative(t)
        r == Unsigned(t)
        at == FirstOf(r, {"e", "E"})
        mant == SubSeq(r, 1, at - 1)
        hasExp == at <= Len(r)
        etext == SubSeq(r, at + 1, Len(r))
        p == FirstOf(mant, {"."})
        whole == OnlyDigits(SubSeq(mant, 1, p - 1))
        frac == OnlyDigits(SubSeq(mant, p + 1, Len(mant)))
        digits == DropLeadingZeros(whole \o frac)
        edigits == DropLeadingZeros(OnlyDigits(Unsigned(etext)))
        \* an exponent of more digits than the text is long, plus what
        \* MaxExp10 and MinExp10 leave, outweighs the digits of the text
        far == Len(edigits) > Len(NatStr(Len(cs) + MaxExp10 - MinExp10))
        emag == DigitsVal(edigits)
    IN  IF Lower(r) \in {<<"i", "n", "f">>, <<"i", "n", "f", "i", "n", "i", "t", "y">>}
        THEN [ok |-> TRUE, value |-> FloatInf(neg)]
        ELSE IF Lower(r) = <<"n", "a", "n">>
        THEN [ok |-> TRUE, value |-> FloatNan]
        ELSE IF ~(/\ SubSeq(mant, 1, p - 1) = <<>> \/ DigitRun(SubSeq(mant, 1, p - 1))
                  /\ SubSeq(mant, p + 1, Len(mant)) = <<>>
                        \/ DigitRun(SubSeq(mant, p + 1, Len(mant)))
                  /\ whole # <<>> \/ frac # <<>>
                  /\ hasExp => DigitRun(Unsigned(etext)))
        THEN [ok |-> FALSE, value |-> FloatNan]
        ELSE IF digits = <<>> THEN [ok |-> TRUE, value |-> FloatZero(neg)]
        ELSE IF hasExp /\ far
        THEN [ok |-> TRUE,
              value |-> IF IsNegative(etext) THEN FloatZero(neg) ELSE FloatInf(neg)]
        ELSE [ok |-> TRUE,
              value |-> MakeFloat(neg, digits,
                                  (IF ~hasExp THEN 0
                                   ELSE IF IsNegative(etext) THEN 0 - emag ELSE emag)
                                  - Len(frac))]

(***************************************************************************)
(* The constructors bool(x), int(x), float(x), str(x), and type(x):        *)
(* [ok, value, exc].                                                       *)
(***************************************************************************)
Ok(v) == [ok |-> TRUE, value |-> v, exc |-> ""]
Fail(e) == [ok |-> FALSE, value |-> NoneV, exc |-> e]

PyBool(x) ==
    CASE x.t = "bool" -> Ok(x)
      [] x.t = "int" -> Ok(BoolV(x.i # 0 \/ x.s # <<>>))
      [] x.t = "float" -> Ok(BoolV(x.m # "" \/ x.s # <<>>))
      [] x.t = "str" -> Ok(BoolV(Len(x.s) > 0))
      [] x.t = "NoneType" -> Ok(BoolV(FALSE))
      [] OTHER -> Ok(BoolV(TRUE))

PyInt(x) ==
    CASE x.t = "bool" -> Ok(IntV(IF x.b THEN 1 ELSE 0))
      [] x.t = "int" -> Ok(x)
      [] x.t = "float" -> IF x.m = "inf" THEN Fail("OverflowError")
                          ELSE IF x.m = "nan" THEN Fail("ValueError")
                          ELSE Ok(FloatTrunc(x))
      [] x.t = "str" ->
           LET t == Strip(x.s)
               body == Unsigned(t)
           \* a text of more than 4300 digits is refused
           IN  IF DigitRun(body) /\ Len(OnlyDigits(body)) <= 4300
               THEN Ok(IntOf(IsNegative(t), DropLeadingZeros(OnlyDigits(body))))
               ELSE Fail("ValueError")
      [] OTHER -> Fail("TypeError")

\* float(n) of an int: the nearest double f, none for an int beyond them
Finite(f) == IF f.m = "inf" THEN Fail("OverflowError") ELSE Ok(f)

\* float(s) of a text, as ParseFloat read it
Parsed(r) == IF r.ok THEN Ok(r.value) ELSE Fail("ValueError")

PyFloat(x) ==
    CASE x.t \in {"bool", "int"} ->
           Finite(MakeFloat(IntParts(x).neg, IntParts(x).digits, 0))
      [] x.t = "float" -> Ok(x)
      [] x.t = "str" -> Parsed(ParseFloat(x.s))
      [] OTHER -> Fail("TypeError")

PyStr(x) ==
    CASE x.t = "str" -> Ok(x)
      [] x.t = "bool" -> Ok(StrV(IF x.b THEN <<"T", "r", "u", "e">>
                                       ELSE <<"F", "a", "l", "s", "e">>))
      \* an int of more than 4300 digits is refused
      [] x.t = "int" -> IF Len(x.s) > 4300 THEN Fail("ValueError")
                        ELSE Ok(StrV(IF x.s = <<>> THEN IntStr(x.i)
                                     ELSE (IF x.b THEN <<"-">> ELSE <<>>) \o x.s))
      [] x.t = "float" -> Ok(StrV(FloatStr(x)))
      [] x.t = "NoneType" -> Ok(StrV(<<"N", "o", "n", "e">>))
      [] OTHER -> Ok(StrV(<<"<", "c", "l", "a", "s", "s", " ", "'">>
                          \o x.s \o <<"'", ">">>))

\* fallback_type(value): calling the class named cls on a value, for the
\* classes of the values of the model; the instances any other class makes
\* are not among the values, and calling one is left undefined.
Construct(cls, x) ==
    CASE cls = TypeNames.bool -> PyBool(x)
      [] cls = TypeNames.int -> PyInt(x)
      [] cls = TypeNames.float -> PyFloat(x)
      [] cls = TypeNames.str -> PyStr(x)
      [] cls = TypeNames.type -> Ok(TypeV(x.t))
      [] cls = TypeNames.NoneType -> Fail("TypeError")

\* x == y: numbers (bool, int, float) by their value, a nan equal to
\* nothing; strings by their characters; classes by identity
IsNumber(x) == x.t \in {"bool", "int", "float"}

\* the int or bool n equals the float x
IntEqFloat(n, x) ==
    /\ x.m = ""
    /\ FloatIntPart(x) = [digits |-> IntParts(n).digits, whole |-> TRUE]
    /\ IntParts(n).digits # <<>> => (x.b <=> IntParts(n).neg)

PyEq(x, y) ==
    IF ~(IsNumber(x) /\ IsNumber(y)) THEN x.t = y.t /\ x = y
    ELSE IF x.t = "float" /\ y.t = "float"
    THEN /\ x.m # "nan" /\ y.m # "nan"
         /\ \/ x.m = "" /\ y.m = "" /\ x.s = <<>> /\ y.s = <<>>
            \/ x = y
    ELSE IF x.t = "float" \/ y.t = "float"
    THEN IntEqFloat(IF x.t = "float" THEN y ELSE x, IF x.t = "float" THEN x ELSE y)
    ELSE IntParts(x) = IntParts(y)

(***************************************************************************)
(* Python dicts: insertion-ordered keys and a key -> value function.       *)
(***************************************************************************)
EmptyDict == [keys |-> <<>>, val |-> <<>>]
KeySet(d) == DOMAIN d.val
HasKey(d, key) == key \in DOMAIN d.val

\* d[key] = v
SetItem(d, key, v) ==
    IF HasKey(d, key) THEN [d EXCEPT !.val[key] = v]
    ELSE [keys |-> Append(d.keys, key),
          val |-> [k \in KeySet(d) \cup {key} |-> IF k = key THEN v ELSE d.val[k]]]

\* {**a, **b}: a's items in a's order, overridden and then extended by b's
RECURSIVE UpdateFrom(_, _, _)
UpdateFrom(d, b, k) ==
    IF k > Len(b.keys) THEN d
    ELSE UpdateFrom(SetItem(d, b.keys[k], b.val[b.keys[k]]), b, k + 1)

Unpack(a, b) == UpdateFrom(a, b, 1)

\* the elements of the sequence q that are in S, in q's order
RECURSIVE Restrict(_, _)
Restrict(q, S) ==
    IF q = <<>> THEN <<>>
    ELSE IF Head(q) \in S THEN <<Head(q)>> \o Restrict(Tail(q), S)
         ELSE Restrict(Tail(q), S)

Range(q) == {q[k] : k \in 1..Len(q)}

\* a == b for dicts: the same keys, whatever their order, each with values
\* that are the same object or are ==.  Every value but a nan is == to
\* itself, so the object matters for a nan only
DictEq(a, b) ==
    /\ KeySet(a) = KeySet(b)
    /\ \A k \in KeySet(a) :
         \/ a.val[k].t = "float" /\ a.val[k].m = "nan" /\ a.val[k].i # 0
               /\ a.val[k] = b.val[k]
         \/ PyEq(a.val[k], b.val[k])

(***************************************************************************)
(* get_option_fallback(options, fallback), src/src/config.py.  The two     *)
(* arguments are objects on the heap, at the addresses op and fb; the call *)
(* yields the heap after it and its outcome: a returned object, or the     *)
(* exception raised (with the key its message names).                      *)
(***************************************************************************)
Returned(h, ref) == [heap |-> h, kind |-> "return", ref |-> ref, exc |-> "", key |-> ""]
Raised(h, e, key) == [heap |-> h, kind |-> "raise", ref |-> "", exc |-> e, key |-> key]

\* variant: fallback itself is updated in place and returned
NewUpdatedAliased(h, op, fb) ==
    [heap |-> [h EXCEPT ![fb] = Unpack(h[fb], h[op])], ref |-> fb]

\* variant: options keys that fallback lacks are dropped
NewUpdatedKnownOnly(h, op, fb) ==
    [heap |-> [a \in DOMAIN h \cup {"updated"} |->
                 IF a = "updated"
                 THEN LET known == Restrict(h[op].keys, KeySet(h[fb]))
                      IN  Unpack(h[fb], [keys |-> known,
                                         val |-> [k \in Range(known) |-> h[op].val[k]]])
                 ELSE h[a]],
     ref |-> "updated"]

\* line 10: updated = {**fallback, **options}, a new dict object
NewUpdated(h, op, fb) ==
    [heap |-> [a \in DOMAIN h \cup {"updated"} |->
                 IF a = "updated" THEN Unpack(h[fb], h[op]) ELSE h[a]],
     ref |-> "updated"]

\* lines 12-15: the key must be a key of fallback
UnknownKey(fallback, key) == ~HasKey(fallback, key)

\* variant: a required key is read from the merged dict
ResolveKeyFromFallback(options, fallback, updated, key) ==
    IF fallback.val[key].t = "type"
    THEN Construct(fallback.val[key].s, updated.val[key])
    ELSE Construct(TypeNames[fallback.val[key].t], updated.val[key])

\* variant: a defaulted key keeps the supplied value as it is
ResolveKeyUncoerced(options, fallback, updated, key) ==
    IF fallback.val[key].t = "type"
    THEN IF HasKey(options, key)
         THEN Construct(fallback.val[key].s, options.val[key])
         ELSE Fail("KeyError:required")
    ELSE Ok(updated.val[key])

\* lines 16-27: the value of one key, [ok, value, exc]
ResolveKey(options, fallback, updated, key) ==
    IF fallback.val[key].t = "type"
    THEN \* a required option: it must be specified in options
         IF HasKey(options, key)
         THEN Construct(fallback.val[key].s, options.val[key])
         ELSE Fail("KeyError:required")
    ELSE \* an option with default
         Construct(TypeNames[fallback.val[key].t], updated.val[key])

\* the value v as the heap h holds it once stored (line 28): a nan that
\* float(text) has just made is an object that none of h is
Placed(h, v) ==
    LET nans == UNION {{h[a].val[k].i : k \in {j \in KeySet(h[a]) :
                                                h[a].val[j].t = "float"
                                                /\ h[a].val[j].m = "nan"}} :
                       a \in DOMAIN h}
    IN  IF v.t = "float" /\ v.m = "nan" /\ v.i = 0
        THEN [v EXCEPT !.i = CHOOSE n \in 1..(Cardinality(nans) + 1) : n \notin nans]
        ELSE v

\* lines 11-28: the loop over updated.keys(), from the k-th key on; the keys
\* are those of line 10, the loop only replaces values
RECURSIVE ForKeys(_, _, _, _, _)
ForKeys(h, op, fb, upd, k) ==
    IF k > Len(h[upd].keys) THEN Returned(h, upd)
    ELSE LET key == h[upd].keys[k] IN
         IF UnknownKey(h[fb], key) THEN Raised(h, "KeyError:not_in_fallback", key)
         ELSE LET c == ResolveKey(h[op], h[fb], h[upd], key) IN
              IF ~c.ok THEN Raised(h, c.exc, key)
              ELSE ForKeys([h EXCEPT ![upd] = SetItem(h[upd], key, Placed(h, c.value))],
                           op, fb, upd, k + 1)

get_option_fallback(h, op, fb) ==
    LET new == NewUpdated(h, op, fb)
    IN  ForKeys(new.heap, op, fb, new.ref, 1)

(***************************************************************************)
(* Inputs of the resolver specification.                                   *)
(***************************************************************************)
SchemaKeys == {"debug", "epoch_size", "model_name"}
OptionKeyOrder == <<"debug", "epoch_size", "model_name", "typo">>
\* False, 200, 0.05, a nan object, and the required types str and int
FallbackEntries ==
    {BoolV(FALSE), IntV(200), FloatV(500), [FloatNan EXCEPT !.i = 1],
     TypeV("str"), TypeV("int")}

\* 'False', '5', None and the float inf
OptionValues == {StrV(<<"F", "a", "l", "s", "e">>), StrV(<<"5">>), NoneV, FloatInf(FALSE)}

\* the sequences of distinct elements of S, of length at most n
RECURSIVE DistinctSeqs(_, _)
DistinctSeqs(S, n) ==
    IF n = 0 THEN {<<>>}
    ELSE LET shorter == DistinctSeqs(S, n - 1)
         IN  shorter \cup {Append(q, x) : q \in {r \in shorter : Len(r) = n - 1},
                                          x \in S}

NoRepeat(q) == \A a, b \in 1..Len(q) : a # b => q[a] # q[b]

DictsWithKeys(Q, V) ==
    UNION {{[keys |-> q, val |-> f] : f \in [Range(q) -> V]} : q \in Q}

\* fallback schemas: up to MaxKeys keys in any order
FallbackInputs ==
    DictsWithKeys({r \in DistinctSeqs(SchemaKeys, MaxKeys) : NoRepeat(r)},
                  FallbackEntries)

\* options mappings: up to MaxOptKeys keys, possibly one that no schema has
\* (its value is never read: it is '5')
OptionsInputs ==
    {d \in DictsWithKeys({Restrict(OptionKeyOrder, S) :
                            S \in {T \in SUBSET Range(OptionKeyOrder) :
                                     Cardinality(T) <= MaxOptKeys}},
                         OptionValues) :
       HasKey(d, "typo") => d.val["typo"] = StrV(<<"5">>)}

NoReturn == [kind |-> "none", ref |-> "", exc |-> "", key |-> ""]
Outcome(o) == [kind |-> o.kind, ref |-> o.ref, exc |-> o.exc, key |-> o.key]

vars == <<pc, heap, ret, config_arg, cp, idx, common_opt, config_dict, report,
          report_list, written, config, trace, run_report, run_ret, saved, files,
          listing, exc>>

resolverVars == <<heap, ret>>
mainVars == <<config_arg, cp, idx, common_opt, config_dict, report, report_list,
              written>>

runVars == <<config, trace, run_report, run_ret>>
namesVars == <<saved, files, listing>>

Unbound == [kind |-> "unbound"]
NotReturned == [kind |-> "pending", value |-> NoneV]

ResolverIdle == heap = <<>> /\ ret = NoReturn
MainIdle ==
    /\ config_arg = "" /\ cp = <<>> /\ idx = 0 /\ common_opt = EmptyDict
    /\ config_dict = EmptyDict /\ report = Unbound /\ report_list = <<>>
    /\ written = <<>>

RunIdle ==
    config = EmptyDict /\ trace = <<>> /\ run_report = EmptyDict /\ run_ret = NotReturned

NamesIdle == saved = {} /\ files = {} /\ listing = <<>>

ResolverInit ==
    /\ MainIdle /\ RunIdle /\ NamesIdle /\ exc = ""
    /\ pc = "resolve"
    /\ \E o \in OptionsInputs, f \in FallbackInputs :
          heap = [a \in {"options", "fallback"} |-> IF a = "options" THEN o ELSE f]
    /\ ret = NoReturn

\* one call get_option_fallback(options, fallback) that returns
ResolveReturn ==
    /\ pc = "resolve"
    /\ LET out == get_option_fallback(heap, "options", "fallback")
       IN  /\ out.kind = "return"
           /\ heap' = out.heap
           /\ ret' = Outcome(out)
    /\ pc' = "returned"
    /\ UNCHANGED <<mainVars, runVars, namesVars, exc>>

\* one call get_option_fallback(options, fallback) that raises
ResolveRaise ==
    /\ pc = "resolve"
    /\ LET out == get_option_fallback(heap, "options", "fallback")
       IN  /\ out.kind = "raise"
           /\ heap' = out.heap
           /\ ret' = Outcome(out)
    /\ pc' = "raised"
    /\ UNCHANGED <<mainVars, runVars, namesVars, exc>>

ResolverNext == ResolveReturn \/ ResolveRaise

ResolverSpec == ResolverInit /\ [][ResolverNext]_vars

(***************************************************************************)
(* main(config), src/main.py lines 69-116.  The config file is the         *)
(* sequence of its sections, each with its name and its options (a dict    *)
(* from lower-case key to string, as configparser yields them).            *)
(***************************************************************************)
\* a dict literal: a sequence of <<key, value>> items with distinct keys
DictOf(items) ==
    [keys |-> [k \in 1..Len(items) |-> items[k][1]],
     val |-> [key \in {items[k][1] : k \in 1..Len(items)} |->
                items[CHOOSE k \in 1..Len(items) : items[k][1] = key][2]]]

\* d.get(key, default)
Get(d, key, default) == IF HasKey(d, key) THEN d.val[key] ELSE default

\* the dataset identifier imported from src.data (line 24), an opaque string
SOURCE_ASSIST0910_ORIG == StrV(<<"o", "r", "i", "g">>)

CommonName == <<"c", "o", "m", "m", "o", "n">>

\* lines 85-105; 0.05 is 5 hundredths
default_dict(common, section) ==
    DictOf(<< <<"common_name", StrV(<<>>)>>,
              <<"section_name",
                StrV(Get(common, "common_name", StrV(<<>>)).s \o section)>>,
              <<"debug", BoolV(FALSE)>>,
              <<"model_name", TypeV("str")>>,
              <<"load_model", StrV(<<>>)>>,
              <<"plot_heatmap", BoolV(FALSE)>>,
              <<"plot_lc", BoolV(FALSE)>>,
              <<"source_data", SOURCE_ASSIST0910_ORIG>>,
              <<"ks_loss", BoolV(FALSE)>>,
              <<"extend_backward", IntV(0)>>,
              <<"extend_forward", IntV(0)>>,
              <<"epoch_size", IntV(200)>>,
              <<"sequence_size", IntV(20)>>,
              <<"lr", FloatV(5 * Pow10(FracDigits - 2))>>,
              <<"n_skills", IntV(124)>>,
              <<"cuda", BoolV(TRUE)>>,
              <<"batch_size", IntV(100)>> >>)

\* line 79: dict(cp['common']) if 'common' in section_list else dict()
CommonOpt(file) ==
    IF \E k \in 1..Len(file) : file[k].name = CommonName
    THEN file[CHOOSE k \in 1..Len(file) : file[k].name = CommonName].opts
    ELSE EmptyDict

\* variant: {**section_opt, **common_opt}
MergedOptionsCommonWins(common, section) == Unpack(section, common)

\* lines 106-107: {**common_opt, **section_opt}
MergedOptions(common, section) == Unpack(common, section)

\* BaseConfig.__init__(self, options), src/src/config.py line 41; Config
\* defines no __init__ of its own
ConfigInitParams == <<"self", "options">>

\* line 109: Config(config_dict, projectdir)
ConfigCallArgs == <<"self", "config_dict", "projectdir">>

\* a call binds when it passes as many positional arguments as there are
\* parameters; otherwise Python raises TypeError
Binds(params, args) == Len(args) = Len(params)

\* the attributes of a Config object: the option names, the two methods of
\* the classes, and _attr_list (src/src/config.py lines 41-57)
ConfigAttrs(options) == KeySet(options) \cup {"_attr_list", "as_dict", "setup"}

\* lines 72-74: without --config, main prints a notice and returns
MainNoConfig ==
    /\ pc = "main.start"
    /\ config_arg = ""
    /\ pc' = "main.returned"
    /\ UNCHANGED <<resolverVars, runVars, namesVars, mainVars, exc>>

\* lines 75-80
MainRead ==
    /\ pc = "main.start"
    /\ config_arg # ""
    /\ common_opt' = CommonOpt(cp)
    /\ report_list' = <<>>
    /\ idx' = 1
    /\ pc' = "main.loop"
    /\ UNCHANGED <<resolverVars, runVars, namesVars, config_arg, cp, config_dict, report, written, exc>>

\* lines 81-83
MainSkipCommon ==
    /\ pc = "main.loop"
    /\ idx <= Len(cp)
    /\ cp[idx].name = CommonName
    /\ idx' = idx + 1
    /\ UNCHANGED <<pc, resolverVars, runVars, namesVars, config_arg, cp, common_opt, config_dict, report,
                   report_list, written, exc>>

\* lines 84-107: the section's options are resolved against default_dict
MainResolve ==
    /\ pc = "main.loop"
    /\ idx <= Len(cp)
    /\ cp[idx].name # CommonName
    /\ LET h == [a \in {"options", "fallback"} |->
                   IF a = "options" THEN MergedOptions(common_opt, cp[idx].opts)
                   ELSE default_dict(common_opt, cp[idx].name)]
           out == get_option_fallback(h, "options", "fallback")
       IN  IF out.kind = "return"
           THEN /\ config_dict' = out.heap[out.ref]
                /\ pc' = "main.construct"
                /\ exc' = exc
           ELSE /\ config_dict' = config_dict
                /\ pc' = "main.raised"
                /\ exc' = out.exc
    /\ UNCHANGED <<resolverVars, runVars, namesVars, config_arg, cp, idx, common_opt, report, report_list,
                   written>>

\* lines 108-110: Config(config_dict, projectdir) passes one argument more
\* than BaseConfig.__init__ takes
MainConstruct ==
    /\ pc = "main.construct"
    /\ IF Binds(ConfigInitParams, ConfigCallArgs)
       THEN pc' = "main.run" /\ exc' = exc
       ELSE pc' = "main.raised" /\ exc' = "TypeError"
    /\ UNCHANGED <<resolverVars, runVars, namesVars, mainVars>>

\* lines 114-116, after the loop: print(report), then the report file is
\* opened under the name config._get_stem_name() gives and the list dumped
MainWrite ==
    /\ pc = "main.loop"
    /\ idx > Len(cp)
    /\ IF report = Unbound
       THEN pc' = "main.raised" /\ exc' = "UnboundLocalError" /\ written' = written
       ELSE IF "_get_stem_name" \notin ConfigAttrs(config_dict)
       THEN pc' = "main.raised" /\ exc' = "AttributeError" /\ written' = written
       ELSE /\ pc' = "main.returned" /\ exc' = exc
            /\ written' = Append(written, [name |-> config_arg, content |-> report_list])
    /\ UNCHANGED <<resolverVars, runVars, namesVars, config_arg, cp, idx, common_opt, config_dict, report,
                   report_list>>

(***************************************************************************)
(* Inputs of the main specification: config files of up to MaxSections     *)
(* sections, each with up to MaxOptKeys options.                           *)
(***************************************************************************)
IniSectionNames == {CommonName, <<"e", "x", "p", "1">>, <<"e", "x", "p", "2">>}
IniKeyOrder == <<"model_name", "epoch_size", "common_name">>
IniValues(key) ==
    CASE key = "model_name" -> {StrV(<<"e", "n", "c", "d", "e", "c">>)}
      [] key = "epoch_size" -> {StrV(<<"5">>), StrV(<<"7">>)}
      [] key = "common_name" -> {StrV(<<"c", "_">>)}

IniOpts ==
    UNION {{[keys |-> q, val |-> f] :
              f \in {g \in [Range(q) -> UNION {IniValues(k) : k \in Range(q)}] :
                       \A k \in Range(q) : g[k] \in IniValues(k)}} :
           q \in {Restrict(IniKeyOrder, S) :
                    S \in {T \in SUBSET Range(IniKeyOrder) : Cardinality(T) <= MaxOptKeys}}}

\* the section names of a file: distinct, at most MaxSections
IniSectionLists == {r \in DistinctSeqs(IniSectionNames, MaxSections) : NoRepeat(r)}

\* the file with the sections named by names and the options opts[k]
IniFile(names, opts) == [k \in 1..Len(names) |-> [name |-> names[k], opts |-> opts[k]]]

MainInit ==
    /\ ResolverIdle /\ RunIdle /\ NamesIdle /\ exc = ""
    /\ pc = "main.start"
    /\ \/ config_arg = "" /\ cp = <<>>
       \/ /\ config_arg = "batch.ini"
          /\ \E names \in IniSectionLists :
               \E opts \in [1..Len(names) -> IniOpts] : cp = IniFile(names, opts)
    /\ idx = 0 /\ common_opt = EmptyDict /\ config_dict = EmptyDict
    /\ report = Unbound /\ report_list = <<>> /\ written = <<>>

MainNext == MainNoConfig \/ MainRead \/ MainSkipCommon \/ MainResolve
            \/ MainConstruct \/ MainWrite

MainSpec == MainInit /\ [][MainNext]_vars

(***************************************************************************)
(* run(config), src/main.py lines 119-426.  config is the Config object,   *)
(* whose attributes are the resolved options.  The models, data            *)
(* preparation, torch and the Trainer are outside src/; the calls run      *)
(* makes to them are recorded in trace.                                    *)
(***************************************************************************)
Chars(v) == v.s
Truthy(v) == PyBool(v).value.b

\* line 120
SupportedModels ==
    {<<"e", "n", "c", "d", "e", "c">>, <<"b", "a", "s", "e", "r", "n", "n">>,
     <<"b", "a", "s", "e", "l", "s", "t", "m">>, <<"s", "e", "q", "2", "s", "e", "q">>}

\* lines 125-128
ModelFname(cfg) ==
    Chars(cfg.val["model_name"])
    \o (IF Truthy(cfg.val["extend_backward"])
        THEN <<"e", "b">> \o PyStr(cfg.val["extend_backward"]).value.s ELSE <<>>)
    \o (IF Truthy(cfg.val["extend_forward"])
        THEN <<"e", "f">> \o PyStr(cfg.val["extend_forward"]).value.s ELSE <<>>)
    \o (IF Truthy(cfg.val["ks_loss"]) THEN <<"k", "s">> ELSE <<>>)

\* line 226: if config.load_model
LoadConfigured(cfg) == Truthy(cfg.val["load_model"])

\* lines 175-217: the constructor called for each model_name, "" for none
ModelConstructor(name) ==
    CASE name = <<"e", "n", "c", "d", "e", "c">> -> "EncDecDKT"
      [] name = <<"s", "e", "q", "2", "s", "e", "q">> -> "get_Seq2Seq"
      [] name = <<"b", "a", "s", "e", "r", "n", "n">> -> "BaseDKT"
      [] name = <<"b", "a", "s", "e", "l", "s", "t", "m">> -> "BaseDKT"
      [] OTHER -> ""

LossBatchFactory(name) ==
    CASE name = <<"e", "n", "c", "d", "e", "c">> -> "get_loss_batch_encdec"
      [] name = <<"s", "e", "q", "2", "s", "e", "q">> -> "get_loss_batch_seq2seq"
      [] OTHER -> "get_loss_batch_basedkt"

\* line 120, then lines 121-129: the assertion, then the report's model_fname
RunStart ==
    /\ pc = "run.start"
    /\ IF Chars(config.val["model_name"]) \in SupportedModels
       THEN /\ run_report' = SetItem(EmptyDict, "model_fname", StrV(ModelFname(config)))
            /\ pc' = "run.seed"
            /\ exc' = exc
       ELSE /\ run_report' = run_report
            /\ pc' = "run.raised"
            /\ exc' = "AssertionError"
    /\ UNCHANGED <<resolverVars, mainVars, namesVars, config, trace, run_ret>>

\* lines 121-129 when the interpreter runs with -O (or PYTHONOPTIMIZE): the
\* assert statement of line 120 is not compiled, whatever model_name is
RunStartOptimized ==
    /\ pc = "run.start"
    /\ run_report' = SetItem(EmptyDict, "model_fname", StrV(ModelFname(config)))
    /\ pc' = "run.seed"
    /\ UNCHANGED <<resolverVars, mainVars, namesVars, config, trace, run_ret, exc>>

\* lines 134-169: the three seeds, the device and the logger, then the sizes;
\* log(2 * n_skills) raises ValueError unless n_skills is positive
RunSeed ==
    /\ pc = "run.seed"
    /\ trace' = trace \o <<"random.seed", "np.random.seed", "torch.manual_seed">>
    /\ IF config.val["n_skills"].i > 0
          \/ (config.val["n_skills"].s # <<>> /\ ~config.val["n_skills"].b)
       THEN pc' = "run.build" /\ exc' = exc
       ELSE pc' = "run.raised" /\ exc' = "ValueError"
    /\ UNCHANGED <<resolverVars, mainVars, namesVars, config, run_report, run_ret>>

\* lines 175-221: the model, its loss_batch and the data
RunBuild ==
    /\ pc = "run.build"
    /\ LET name == Chars(config.val["model_name"]) IN
       IF ModelConstructor(name) # ""
       THEN /\ trace' = trace \o <<ModelConstructor(name), LossBatchFactory(name),
                                   "prepare_data">>
            /\ pc' = "run.model"
            /\ exc' = exc
       ELSE /\ trace' = trace
            /\ pc' = "run.raised"
            /\ exc' = "ValueError"
    /\ UNCHANGED <<resolverVars, mainVars, namesVars, config, run_report, run_ret>>

\* lines 226-228: the parameters are loaded from the checkpoint
RunLoad ==
    /\ pc = "run.model"
    /\ LoadConfigured(config)
    /\ trace' = trace \o <<"torch.load", "load_state_dict">>
    /\ pc' = "run.end"
    /\ UNCHANGED <<resolverVars, mainVars, namesVars, config, run_report, run_ret, exc>>

\* lines 229-240: a Trainer is constructed and train_model() returns
RunTrain ==
    /\ pc = "run.model"
    /\ ~LoadConfigured(config)
    /\ trace' = trace \o <<"Trainer", "train_model">>
    /\ pc' = "run.end"
    /\ UNCHANGED <<resolverVars, mainVars, namesVars, config, run_report, run_ret, exc>>

\* Trainer.train_model (knowledge_tracing/trainer.py, outside src/): the
\* exceptions it lets out to its caller.  The interrupt of the user is handled
\* by the caller of train_model, not inside it (spec, 4.4 and 4.5).
TrainModelRaises == {"KeyboardInterrupt"}

\* lines 229-240: the user interrupts train_model(); run has no handler, so
\* the KeyboardInterrupt leaves run
RunTrainInterrupted ==
    /\ pc = "run.model"
    /\ ~LoadConfigured(config)
    /\ trace' = trace \o <<"Trainer", "train_model">>
    /\ pc' = "run.raised"
    /\ exc' \in TrainModelRaises
    /\ UNCHANGED <<resolverVars, mainVars, namesVars, config, run_report, run_ret>>

\* lines 241-426: everything after the training is commented out, `return
\* report` (line 426) included, so the function falls off its end
RunReturn ==
    /\ pc = "run.end"
    /\ run_ret' = [kind |-> "returned", value |-> NoneV]
    /\ pc' = "run.returned"
    /\ UNCHANGED <<resolverVars, mainVars, namesVars, config, trace, run_report, exc>>

(***************************************************************************)
(* Inputs of the run specification: resolved configurations.               *)
(***************************************************************************)
RunModelNames == SupportedModels \cup {<<"d", "k", "t">>}
RunLoadModels == {<<>>, <<"m", ".", "p", "t">>}
RunExtends == {0, 2, 10}
RunSkills == {124, 0}

RunConfigs ==
    {[keys |-> base.keys,
      val |-> [k \in DOMAIN base.val |->
                 CASE k = "model_name" -> StrV(name)
                   [] k = "load_model" -> StrV(load)
                   [] k = "extend_backward" -> IntV(eb)
                   [] k = "extend_forward" -> IntV(ef)
                   [] k = "ks_loss" -> BoolV(ks)
                   [] k = "n_skills" -> IntV(ns)
                   [] OTHER -> base.val[k]]] :
       name \in RunModelNames, load \in RunLoadModels, eb \in RunExtends,
       ef \in RunExtends, ks \in BOOLEAN, ns \in RunSkills,
       base \in {default_dict(EmptyDict, <<"e", "x", "p", "1">>)}}

RunInit ==
    /\ ResolverIdle /\ MainIdle /\ NamesIdle /\ exc = ""
    /\ pc = "run.start"
    /\ config \in RunConfigs
    /\ trace = <<>> /\ run_report = EmptyDict /\ run_ret = NotReturned

RunNext == RunStart \/ RunStartOptimized \/ RunSeed \/ RunBuild \/ RunLoad \/ RunTrain
           \/ RunTrainInterrupted \/ RunReturn

RunSpec == RunInit /\ [][RunNext]_vars

(***************************************************************************)
(* Checkpoint files: save_model (src/main.py lines 33-37) writes a file    *)
(* '{model_name}_auc{auc:.4f}_e{epoch}.model' into the directory           *)
(* checkpoints of config.resultsdir; get_best_model_paths (src/src/path.py *)
(* lines 47-52) lists, sorted, the files '*best.model' of the directory    *)
(* checkpoints/<starttime> of an experiment.  A file is modelled by its    *)
(* name and the sub-directory of checkpoints it is in (<<>> for            *)
(* checkpoints itself), config.resultsdir being the experiment's output    *)
(* directory.  Paths of one directory sort in the string order of their    *)
(* names.  An auc is given in units of 10^-AucDecimals.                    *)
(***************************************************************************)
AucDecimals == 4

\* variant: f'{auc}', the shortest decimal text
FormatAucRepr(auc) ==
    NatStr(auc \div Pow10(AucDecimals)) \o <<".">>
    \o StripZeros(FixedDigits(auc % Pow10(AucDecimals), AucDecimals))

\* f'{auc:.4f}'
FormatAuc(auc) ==
    NatStr(auc \div Pow10(AucDecimals)) \o <<".">>
    \o FixedDigits(auc % Pow10(AucDecimals), AucDecimals)

\* line 37: f'{config.model_name}_auc{auc:.4f}_e{epoch}.model'
CheckpointName(model_name, auc, epoch) ==
    model_name \o <<"_", "a", "u", "c">> \o FormatAuc(auc)
    \o <<"_", "e">> \o NatStr(epoch) \o <<".", "m", "o", "d", "e", "l">>

\* the characters of file names, in the order of their code points
CodeOrder ==
    <<".", "0", "1", "2", "3", "4", "5", "6", "7", "8", "9", "_",
      "a", "b", "c", "d", "e", "f", "g", "h", "i", "j", "k", "l", "m",
      "n", "o", "p", "q", "r", "s", "t", "u", "v", "w", "x", "y", "z">>
Code(c) == CHOOSE k \in 1..Len(CodeOrder) : CodeOrder[k] = c

\* a < b for Python strings: the first differing character decides, and a
\* proper prefix is smaller
RECURSIVE StrLess(_, _)
StrLess(a, b) ==
    IF b = <<>> THEN FALSE
    ELSE IF a = <<>> THEN TRUE
    ELSE IF Head(a) = Head(b) THEN StrLess(Tail(a), Tail(b))
    ELSE Code(Head(a)) < Code(Head(b))

\* sorted(names)
RECURSIVE Sorted(_)
Sorted(S) ==
    IF S = {} THEN <<>>
    ELSE LET least == CHOOSE x \in S : \A y \in S : x = y \/ StrLess(x, y)
         IN  <<least>> \o Sorted(S \ {least})

CheckpointModel == <<"e", "n", "c", "d", "e", "c">>
AucValues == {8000, 8500, 9500, 10000}

\* lines 33-37: save_model(config, model, auc, epoch)
SaveModel ==
    /\ pc = "names.saving"
    /\ Cardinality(saved) < MaxFiles
    /\ \E auc \in AucValues, epoch \in 1..MaxEpoch :
         /\ saved' = saved \cup {<<auc, epoch>>}
         /\ files' = files \cup {[dir |-> <<>>,
                                  name |-> CheckpointName(CheckpointModel, auc, epoch)]}
    /\ UNCHANGED <<pc, resolverVars, mainVars, runVars, listing, exc>>

\* name ends with suffix
EndsWith(name, suffix) ==
    /\ Len(name) >= Len(suffix)
    /\ SubSeq(name, Len(name) - Len(suffix) + 1, Len(name)) = suffix

\* path.py line 52: the pattern "*best.model"
BestModelSuffix == <<"b", "e", "s", "t", ".", "m", "o", "d", "e", "l">>

\* the values of config_dict["starttime"]
StartTimes == {<<>>, <<"t", "1">>}

\* files that other writers left under checkpoints
ExistingFiles ==
    {[dir |-> <<"t", "1">>, name |-> CheckpointModel \o <<"_">> \o BestModelSuffix],
     [dir |-> <<"t", "1">>, name |-> <<"a", "_">> \o BestModelSuffix],
     [dir |-> <<>>, name |-> BestModelSuffix]}

\* line 52: sorted(cpdir.glob("*best.model")) for cpdir = checkpoints/<starttime>,
\* over the files fs
BestModelNames(fs, starttime) ==
    Sorted({f.name : f \in {g \in fs : /\ g.dir = starttime
                                        /\ EndsWith(g.name, BestModelSuffix)}})

\* src/src/path.py lines 47-52
get_best_model_paths ==
    /\ pc = "names.saving"
    /\ \E starttime \in StartTimes : listing' = BestModelNames(files, starttime)
    /\ pc' = "names.listed"
    /\ UNCHANGED <<resolverVars, mainVars, runVars, saved, files, exc>>

NamesInit ==
    /\ ResolverIdle /\ MainIdle /\ RunIdle /\ exc = ""
    /\ pc = "names.saving"
    /\ saved = {} /\ files \in SUBSET ExistingFiles /\ listing = <<>>

NamesNext == SaveModel \/ get_best_model_paths

NamesSpec == NamesInit /\ [][NamesNext]_vars

(***************************************************************************)
(* Claims about get_option_fallback, under ResolverSpec.                   *)
(***************************************************************************)
Options == heap["options"]
Fallback == heap["fallback"]
Called == ret.kind # "none"
HasUnknownKey == KeySet(Options) \ KeySet(Fallback) # {}
IsRequired(k) == Fallback.val[k].t = "type"
MissingRequired == \E k \in KeySet(Fallback) : IsRequired(k) /\ ~HasKey(Options, k)

\* the value given for a fallback key converts to the key's type
Converts(k) ==
    IF IsRequired(k)
    THEN HasKey(Options, k) => Construct(Fallback.val[k].s, Options.val[k]).ok
    ELSE Construct(TypeNames[Fallback.val[k].t],
                   IF HasKey(Options, k) THEN Options.val[k] ELSE Fallback.val[k]).ok

\* position of a key in the fallback schema
Pos(k) == CHOOSE n \in 1..Len(Fallback.keys) : Fallback.keys[n] = k

\* C1 as stated: whenever options has a key that fallback lacks, the call
\* fails with the unknown-option error, whatever else is present or missing.
C1_AlwaysUnknownOptionError ==
    (Called /\ HasUnknownKey)
        => (ret.kind = "raise" /\ ret.exc = "KeyError:not_in_fallback")

\* C1 amended: whenever options has a key that fallback lacks, the call
\* raises and returns no mapping; the error is the unknown-option error
\* exactly when no required key is missing and every fallback key's value
\* converts, and otherwise it is the error of a fallback key.
C1_UnknownOptionNeverReturns ==
    (Called /\ HasUnknownKey)
        => /\ ret.kind = "raise"
           /\ (ret.exc = "KeyError:not_in_fallback")
                 <=> (~MissingRequired /\ \A k \in KeySet(Fallback) : Converts(k))
           /\ (ret.exc = "KeyError:not_in_fallback")
                 => ret.key \in KeySet(Options) \ KeySet(Fallback)
           /\ (ret.exc # "KeyError:not_in_fallback") => ret.key \in KeySet(Fallback)

C1_Witness ==
    /\ Called /\ HasUnknownKey
    /\ ret.exc = "KeyError:not_in_fallback"
    /\ Fallback.keys # <<>>
    /\ \E k \in KeySet(Fallback) : HasKey(Options, k)

\* C2 as stated: whenever fallback has a required key that options does not
\* supply, the call fails with the missing-required-option error.
C2_AlwaysMissingRequiredError ==
    (Called /\ MissingRequired)
        => (ret.kind = "raise" /\ ret.exc = "KeyError:required")

\* what the conversion of the value given for a fallback key raises, "" if
\* it raises nothing
ConversionError(k) ==
    Construct(IF IsRequired(k) THEN Fallback.val[k].s ELSE TypeNames[Fallback.val[k].t],
              IF HasKey(Options, k) THEN Options.val[k] ELSE Fallback.val[k]).exc

\* C2 amended: whenever fallback has a required key that options does not
\* supply, the call raises and returns no mapping; the error is the
\* missing-required-option error for the first such key, unless the value of
\* a key that comes earlier in fallback fails to convert, and then it is the
\* exception that the conversion of the first such value raises: a
\* ValueError, a TypeError or an OverflowError.
C2_MissingRequiredNeverReturns ==
    (Called /\ MissingRequired)
        => LET miss == CHOOSE k \in KeySet(Fallback) :
                         /\ IsRequired(k) /\ ~HasKey(Options, k)
                         /\ \A j \in KeySet(Fallback) :
                              (IsRequired(j) /\ ~HasKey(Options, j)) => Pos(k) <= Pos(j)
               earlierFails == \E j \in KeySet(Fallback) : Pos(j) < Pos(miss) /\ ~Converts(j)
           IN  /\ ret.kind = "raise"
               /\ ~earlierFails => (ret.exc = "KeyError:required" /\ ret.key = miss)
               /\ earlierFails => /\ ret.exc \in {"ValueError", "TypeError", "OverflowError"}
                                  /\ Pos(ret.key) < Pos(miss)
                                  /\ ~Converts(ret.key)
                                  /\ ret.exc = ConversionError(ret.key)
                                  /\ \A j \in KeySet(Fallback) :
                                       Pos(j) < Pos(ret.key) => Converts(j)

C2_Witness ==
    /\ Called /\ MissingRequired
    /\ ret.exc = "KeyError:required"
    /\ Options.keys # <<>>
    /\ Len(Fallback.keys) > 1

\* C3: whenever the call returns, the result has exactly the keys of
\* fallback, every value has the type of the fallback default (for a required
\* key, the required type), a key that options does not override keeps the
\* fallback default, and with empty options the result equals fallback.
C3_ResultMatchesSchema ==
    ret.kind = "return"
        => LET res == heap[ret.ref] IN
           /\ KeySet(res) = KeySet(Fallback)
           /\ \A k \in KeySet(Fallback) :
                /\ TypeV(res.val[k].t) = (IF IsRequired(k) THEN Fallback.val[k]
                                          ELSE TypeV(Fallback.val[k].t))
                /\ ~HasKey(Options, k) => res.val[k] = Fallback.val[k]
           /\ Options.keys = <<>> => DictEq(res, Fallback)

C3_Witness ==
    /\ ret.kind = "return"
    /\ \E k \in KeySet(Fallback) : ~HasKey(Options, k) /\ Fallback.val[k].m = "nan"
    /\ \E k \in KeySet(Fallback) : HasKey(Options, k) /\ Fallback.val[k].t # "str"
                                   /\ ~IsRequired(k)

StrFalse == StrV(<<"F", "a", "l", "s", "e">>)

\* C4: for a key whose fallback default is a boolean, the string "False"
\* given in options resolves to the boolean false.
C4_FalseStringResolvesFalse ==
    ret.kind = "return"
        => \A k \in KeySet(Fallback) :
             (Fallback.val[k].t = "bool" /\ HasKey(Options, k) /\ Options.val[k] = StrFalse)
                => heap[ret.ref].val[k] = BoolV(FALSE)

\* C6: a call, returning or raising, leaves the options object and the
\* fallback object as they were, and a returned mapping is neither of them.
C6_ArgumentsUnchanged ==
    [][ResolverNext =>
         /\ heap'["options"] = heap["options"]
         /\ heap'["fallback"] = heap["fallback"]
         /\ ret'.kind = "return" => ret'.ref \notin {"options", "fallback"}]_vars

C6_Witness ==
    /\ ret.kind = "return"
    /\ ~DictEq(heap[ret.ref], Fallback)
    /\ ~DictEq(heap[ret.ref], Options)

(***************************************************************************)
(* Claims about main, under MainSpec.                                      *)
(***************************************************************************)
\* the [common] section as the file gives it, an empty dict without one
FileCommon ==
    IF \E k \in 1..Len(cp) : cp[k].name = CommonName
    THEN (CHOOSE sec \in Range(cp) : sec.name = CommonName).opts
    ELSE EmptyDict

\* the value an option is taken from: the section's, else common's, else
\* the in-code default
PrecedenceValue(sec, k) ==
    IF k \in DOMAIN sec.opts.val THEN sec.opts.val[k]
    ELSE IF k \in DOMAIN FileCommon.val THEN FileCommon.val[k]
    ELSE default_dict(FileCommon, sec.name).val[k]

\* C5: once a section's options are resolved, every option holds the
\* section's value if the section sets it, else common's value if common
\* sets it, else the in-code default, converted to the default's type.
C5_SectionOverCommonOverDefault ==
    pc = "main.construct"
        => LET sec == cp[idx]
               dflt == default_dict(FileCommon, sec.name)
           IN  /\ DOMAIN config_dict.val = DOMAIN dflt.val
               /\ \A k \in DOMAIN dflt.val :
                    config_dict.val[k]
                      = Construct(IF dflt.val[k].t = "type" THEN dflt.val[k].s
                                  ELSE TypeNames[dflt.val[k].t],
                                  PrecedenceValue(sec, k)).value

C5_Witness ==
    /\ pc = "main.construct"
    /\ \E k \in DOMAIN cp[idx].opts.val :
         k \in DOMAIN FileCommon.val /\ FileCommon.val[k] # cp[idx].opts.val[k]
    /\ \E k \in DOMAIN FileCommon.val : k \notin DOMAIN cp[idx].opts.val
    /\ config_dict.val["epoch_size"] = IntV(5)

Experiments == {k \in 1..Len(cp) : cp[k].name # CommonName}
MainEnded == pc \in {"main.returned", "main.raised"}

\* C7: when main has ended and every experiment of the config file has run
\* to completion (one report appended per non-common section), the
\* aggregate report file has been written exactly once, under the config's
\* name, and holds the list of those reports.
C7_AggregateReportWrittenOnce ==
    (MainEnded /\ config_arg # "" /\ Len(report_list) = Cardinality(Experiments))
        => /\ Len(written) = 1
           /\ written[1].name = config_arg
           /\ written[1].content = report_list

(***************************************************************************)
(* Claims about run, under RunSpec.                                        *)
(***************************************************************************)
Count(q, x) == Cardinality({k \in 1..Len(q) : q[k] = x})
Calls(x) == Count(trace, x)

\* model_name, then 'eb<n>' for a non-zero extend_backward, 'ef<n>' for a
\* non-zero extend_forward, and 'ks' with ks_loss
ExpectedFname ==
    config.val["model_name"].s
    \o (IF config.val["extend_backward"].i # 0
        THEN <<"e", "b">> \o IntStr(config.val["extend_backward"].i) ELSE <<>>)
    \o (IF config.val["extend_forward"].i # 0
        THEN <<"e", "f">> \o IntStr(config.val["extend_forward"].i) ELSE <<>>)
    \o (IF config.val["ks_loss"].b THEN <<"k", "s">> ELSE <<>>)

\* C8: a run(config) that completes returns a report mapping whose
\* model_fname is the name composed from the configuration.
C8_RunReturnsReport ==
    pc = "run.returned"
        => /\ run_ret.value.t = "dict"
           /\ run_ret.value = run_report
           /\ run_report.val["model_fname"] = StrV(ExpectedFname)

\* run is past the choice between loading and training
PastModel == pc \in {"run.end", "run.returned"} \/ exc = "KeyboardInterrupt"

\* C10: with load_model configured, no Trainer is constructed, train_model
\* and pre_train_model are never called, the parameters are loaded from the
\* checkpoint, once, and evaluate_model runs after the load, so that a run
\* that has returned has evaluated the loaded model; with load_model empty,
\* train_model is called exactly once and nothing is loaded.
C10_LoadThenEvaluate ==
    /\ config.val["load_model"].s # <<>>
         => /\ Calls("Trainer") = 0 /\ Calls("train_model") = 0
            /\ Calls("pre_train_model") = 0
            /\ PastModel => Calls("torch.load") = 1 /\ Calls("load_state_dict") = 1
            /\ pc = "run.returned"
                 => \E k \in 1..Len(trace) :
                      /\ trace[k] = "evaluate_model"
                      /\ \E j \in 1..(k - 1) : trace[j] = "load_state_dict"
    /\ config.val["load_model"].s = <<>>
         => /\ Calls("torch.load") = 0 /\ Calls("load_state_dict") = 0
            /\ Calls("train_model") <= 1
            /\ PastModel => Calls("train_model") = 1 /\ Calls("Trainer") = 1

\* the user interrupted train_model() and the interrupt is in flight
Interrupted == exc \in TrainModelRaises

\* C11: an interrupt of the user raised while train_model() is executing is
\* caught inside run and does not leave it, and the report of the experiment
\* is dumped exactly once.
C11_InterruptCaughtReportDumped ==
    Interrupted
        => /\ pc # "run.raised"
           /\ Calls("train_model") = 1
           /\ Calls("dump_report") = 1

\* 'encdec', 'basernn', 'baselstm', 'seq2seq'
NamedModels ==
    {<<"e", "n", "c", "d", "e", "c">>, <<"b", "a", "s", "e", "r", "n", "n">>,
     <<"b", "a", "s", "e", "l", "s", "t", "m">>, <<"s", "e", "q", "2", "s", "e", "q">>}

UnsupportedModel == config.val["model_name"].s \notin NamedModels

\* C12: run(config) with a model_name outside 'encdec', 'basernn',
\* 'baselstm', 'seq2seq' fails before any seeding, model construction, data
\* preparation or training, and never returns: nothing has been called
\* when it raises, and the exception ends run.
C12_UnsupportedModelFailsFirst ==
    UnsupportedModel
        => /\ trace = <<>>
           /\ pc \notin {"run.build", "run.model", "run.end", "run.returned"}
           /\ run_ret = NotReturned
           /\ pc = "run.raised" => exc # "" /\ ~ENABLED RunNext

(***************************************************************************)
(* Claims about the checkpoint names, under NamesSpec.                     *)
(***************************************************************************)
NamesOf(q) == [k \in 1..Len(q) |-> CheckpointName(CheckpointModel, q[k][1], q[k][2])]

NumericBefore(x, y) == x[1] < y[1] \/ (x[1] = y[1] /\ x[2] < y[2])

\* by auc as a number, then by the epoch's decimal digits as a string
AucThenEpochTextBefore(x, y) ==
    x[1] < y[1] \/ (x[1] = y[1] /\ StrLess(NatStr(x[2]), NatStr(y[2])))

\* the pairs of P in numeric order of (auc, epoch)
RECURSIVE SortedNumerically(_)
SortedNumerically(P) ==
    IF P = {} THEN <<>>
    ELSE LET least == CHOOSE x \in P : \A y \in P : x = y \/ NumericBefore(x, y)
         IN  <<least>> \o SortedNumerically(P \ {least})

\* the pairs of P by auc, then by the text of the epoch
RECURSIVE SortedByAucThenEpochText(_)
SortedByAucThenEpochText(P) ==
    IF P = {} THEN <<>>
    ELSE LET least == CHOOSE x \in P : \A y \in P : x = y \/ AucThenEpochTextBefore(x, y)
         IN  <<least>> \o SortedByAucThenEpochText(P \ {least})

\* the names of the files that save_model wrote
SavedNames == {CheckpointName(CheckpointModel, p[1], p[2]) : p \in saved}

\* C9 as stated: the file names in string order are the (auc, epoch) pairs
\* in numeric order.
C9_NameOrderIsNumericOrder ==
    Sorted(SavedNames) = NamesOf(SortedNumerically(saved))

\* C9 amended: the file names in string order are the pairs ordered by auc
\* as a number and, among equal aucs, by the decimal text of the epoch; so
\* the last name has the greatest auc, and the order is the numeric order of
\* (auc, epoch) whenever files of equal auc have epochs of equal digit count.
C9_NameOrderIsAucOrder ==
    LET names == Sorted(SavedNames) IN
    /\ SavedNames = {f.name : f \in files \ ExistingFiles}
    /\ names = NamesOf(SortedByAucThenEpochText(saved))
    /\ saved # {}
         => \E p \in saved :
              /\ names[Len(names)] = CheckpointName(CheckpointModel, p[1], p[2])
              /\ \A q \in saved : q[1] <= p[1]
    /\ (\A p, q \in saved : p[1] = q[1] => Len(NatStr(p[2])) = Len(NatStr(q[2])))
         => names = NamesOf(SortedNumerically(saved))

C9_Witness ==
    /\ Cardinality(files \ ExistingFiles) = MaxFiles
    /\ \E p, q \in saved : p[1] < q[1] /\ p[2] > q[2]
                           /\ Len(NatStr(p[2])) > Len(NatStr(q[2]))

====
